---- MODULE Spec2Model ----
(***************************************************************************)
(* The concurrent conversion pipeline of avif-converter (main.go): main's  *)
(* preconditions and dry run, the worker pool (job channel, WaitGroup,     *)
(* results channel, feeder and closer goroutines), the per-job worker      *)
(* steps (name, unique path, temp file, encoder, rename or copy, stat)     *)
(* and the aggregator's tallies.  Every filesystem call and every channel  *)
(* operation of a goroutine is one atomic step.                            *)
(*                                                                         *)
(* Environment: a filesystem or subprocess call whose error the code       *)
(* tests (CreateTemp, avifenc, Rename, copyFile, Stat at line 325,         *)
(* MkdirAll, LookPath) may fail; os.Stat inside ensureUniquePath reports   *)
(* "not exist" exactly for absent paths; os.Remove of an existing file     *)
(* removes it.                                                             *)
(***************************************************************************)
EXTENDS Integers, Sequences, FiniteSets, TLC

\* ------------------------------------------------------------- bounds
MaxJobs == 2          \* longest job list explored
MaxWorkers == 2       \* largest -workers value explored
SuffixLimit == 3      \* stands for the 1000 of "for i := 1; i < 1000" (line 346)
MaxTmp == 2           \* number of distinct random temp-file names

\* ------------------------------------------------------------- values
Nil == "nil"                                  \* a nil error
OutDir == "out"
BaseNames == <<"x", "x-1">>                   \* source base names (without extension)
Dates == <<"20250915">>                       \* ModTime.Format("20060102")
Rnds == {"a3f2c1", "00b1e2"}                  \* hex.EncodeToString of 3 random bytes
Prefixes == {"", "p"}
WorkerFlags == {-1, 0} \cup 1..MaxWorkers     \* values of -workers explored

ErrUnique == "unique output path fail"
ErrTemp == "create temp file"
ErrEnc == "avifenc failed"
ErrSave == "save output failed"
ErrStat == "stat output failed"

\* FileInfo (lines 18-23); Path is kept split into directory, base name and extension
FileInfo(dir, name, size) ==
    [Path |-> [dir |-> dir, name |-> name, ext |-> ".jpg"],
     ModTime |-> Dates[1], Ext |-> "jpg", Size |-> size]

\* ConvertResult (lines 25-31) with Go's zero values
ConvertResult(src, orig) ==
    [Src |-> src, Dst |-> "", OrigBytes |-> orig, ConvBytes |-> 0, Err |-> Nil]

NoFile == FileInfo("", "", 0)
NoPath == [dir |-> "", name |-> "", ext |-> ""]

\* the job lists explored: k files in k different directories, sizes 100, 200, ...;
\* the first is named BaseNames[1]; the others have any of the base names when
\* the names are kept, and the same name when they play no part in the output name
JobLists(keep) ==
    UNION { { [k \in 1..n |-> FileInfo("d" \o ToString(k), BaseNames[b[k]], 100 * k)] :
                b \in { c \in [1..n -> 1..Len(BaseNames)] :
                          \A k \in 1..n : k = 1 \/ ~keep => c[k] = 1 } } :
            n \in 0..MaxJobs }

\* a multiset as a function from its elements to their counts
EmptyLog == [x \in {} |-> 0]
Count(log, x) == IF x \in DOMAIN log THEN log[x] ELSE 0
Logged(log, x) == (x :> Count(log, x) + 1) @@ log

\* ------------------------------------------------------------- paths
\* filepath.Join(dir, name+ext) as a string
PathStr(p) == p.dir \o "/" \o p.name \o p.ext

\* fmt.Sprintf("%s_%s.avif", ...) etc. of makeOutputFilename (lines 235-261);
\* rnd is the token drawn from the random source.  The file name is returned
\* split at its last dot: name and ext ".avif".
makeOutputFilename(f, pfx, keep, rnd) ==
    IF keep
    THEN IF pfx # ""
         THEN [name |-> pfx \o "_" \o f.Path.name, ext |-> ".avif"]
         ELSE [name |-> f.Path.name, ext |-> ".avif"]
    ELSE IF pfx # ""
         THEN [name |-> pfx \o "_" \o f.ModTime \o "_" \o rnd, ext |-> ".avif"]
         ELSE [name |-> f.ModTime \o "_" \o rnd, ext |-> ".avif"]

\* filepath.Join(outDir, outName) (line 268)
Join(dir, fname) == [dir |-> dir, name |-> fname.name, ext |-> fname.ext]

\* the i-th path ensureUniquePath looks at: path itself, then
\* filepath.Join(dir, fmt.Sprintf("%s-%d%s", name, i, ext)) (lines 339, 347)
Candidate(path, i) ==
    IF i = 0 THEN PathStr(path)
    ELSE PathStr([path EXCEPT !.name = path.name \o "-" \o ToString(i)])

\* os.CreateTemp's pattern "avif_tmp_*.avif" in dir (line 280)
TmpName(dir, k) == dir \o "/avif_tmp_" \o ToString(k) \o ".avif"
TmpNames == { TmpName(OutDir, k) : k \in 1..MaxTmp }

\* ------------------------------------------------------------- files on disk
\* a file's content: who wrote it, how many bytes, and whether it is whole
Old == [by |-> "old", size |-> 1, whole |-> TRUE]
Empty(f) == [by |-> PathStr(f.Path), size |-> 0, whole |-> FALSE]
Encoded(f, n) == [by |-> PathStr(f.Path), size |-> n, whole |-> TRUE]
Partial(c) == [c EXCEPT !.size = c.size \div 2, !.whole = FALSE]

\* sizes the encoder may produce for f
EncSizes(f) == {f.Size \div 2}

Exists(fsys, p) == p \in DOMAIN fsys
WriteFile(fsys, p, c) == (p :> c) @@ fsys
RemoveFile(fsys, p) == [q \in DOMAIN fsys \ {p} |-> fsys[q]]
\* os.Rename(old, new): new atomically takes old's content, old disappears
RenameFile(fsys, old, new) == WriteFile(RemoveFile(fsys, old), new, fsys[old])

\* ------------------------------------------------------------- state
VARIABLES
    \* command line and environment (lines 35-43)
    dryRun, keepName, prefix, workers, inputIsDir, encoderFound,
    toConvert,      \* the scanned files of the requested format (lines 98-103)
    \* disk
    before,         \* the output directory's files when the process starts
    outDirBefore,   \* whether the output directory existed when the process started
    outDirExists,   \* whether the output directory exists
    fs,             \* the output directory: path string -> content
    \* main goroutine
    mainPc, i, numWorkers, preview,
    \* channels and WaitGroup (lines 121-123)
    jobCh, jobChClosed, results, resultsClosed, wg,
    \* feeder (lines 136-141) and closer (lines 144-147) goroutines
    feedPc, fed, closerPc,
    \* aggregator (lines 150-151)
    success, fail, totalOrig, totalConv,
    \* worker locals (lines 265-296), one entry per worker
    wpc, fi, res, outPath, try, uniquePath, tmpPath, tmpRemoved,
    \* history
    sentLog,        \* every result sent on results, with the number of times
    recvLog,        \* every <<worker, job>> receive from jobCh, with the number of times
    encCalls,       \* number of encoder invocations
    panicked,       \* a send on a closed channel happened
    placed,         \* <<destination path, source>> of every rename or copy onto a destination
    lookups,        \* number of exec.LookPath calls
    encLog,         \* the sources the encoder was invoked on
    \* scanDirectory (lines 181-231): the walked entries, how many were
    \* visited, and the function's out and counts
    entries, visited, out, counts,
    \* the random token of makeOutputFilename (lines 245-254): whether rand.Read
    \* succeeds, the bytes it gives, time.Now().UnixNano(), the token, and
    \* whether the token was made
    randOk, rb, nano, token, tokPc

\* the directory scan and the token are no part of the pool's runs
scanVars == <<entries, visited, out, counts>>
tokenVars == <<randOk, rb, nano, token, tokPc>>
pureVars == <<scanVars, tokenVars>>
flagVars == <<dryRun, keepName, prefix, workers, inputIsDir, encoderFound, toConvert,
              before, outDirBefore, pureVars>>
diskVars == <<outDirExists, fs>>
mainVars == <<mainPc, i, numWorkers, preview>>
chanVars == <<jobCh, jobChClosed, results, resultsClosed, wg>>
goVars == <<feedPc, fed, closerPc>>
aggVars == <<success, fail, totalOrig, totalConv>>
wkVars == <<wpc, fi, res, outPath, try, uniquePath, tmpPath, tmpRemoved>>
histVars == <<sentLog, recvLog, encCalls, panicked, placed, lookups, encLog>>
vars == <<flagVars, diskVars, mainVars, chanVars, goVars, aggVars, wkVars, histVars>>
\* what a step of the directory scan or of the token leaves alone
poolVars == <<dryRun, keepName, prefix, workers, inputIsDir, encoderFound, toConvert,
              before, outDirBefore, diskVars, mainVars, chanVars, goVars, aggVars,
              wkVars, histVars>>

Workers == 1..MaxWorkers

\* the files the output directory may hold at start: candidates of the first
\* job's output name
PreUniverse(jobs, pfx, keep) ==
    IF jobs = <<>> THEN {}
    ELSE LET rnd == CHOOSE r \in Rnds : TRUE
             p == Join(OutDir, makeOutputFilename(jobs[1], pfx, keep, rnd))
         IN { Candidate(p, k) : k \in 0..(SuffixLimit - 1) }

\* the state when main starts, for the job lists of the two naming modes
PoolStart(keptLists, stampedLists) ==
    /\ dryRun \in BOOLEAN
    /\ keepName \in BOOLEAN
    /\ workers \in WorkerFlags
    \* a prefix changes every output name alike: it is explored with one worker
    /\ prefix \in IF workers <= 1 THEN Prefixes ELSE {""}
    /\ inputIsDir \in BOOLEAN
    /\ encoderFound \in BOOLEAN
    /\ toConvert \in IF keepName THEN keptLists ELSE stampedLists
    /\ outDirExists \in BOOLEAN
    /\ outDirBefore = outDirExists
    /\ before \in IF outDirExists
                  THEN { [p \in S |-> Old] : S \in SUBSET PreUniverse(toConvert, prefix, keepName) }
                  ELSE { [p \in {} |-> Old] }
    /\ fs = before
    /\ mainPc = "validate" /\ i = 0 /\ numWorkers = 0 /\ preview = <<>>
    /\ jobCh = <<>> /\ jobChClosed = FALSE
    /\ results = <<>> /\ resultsClosed = FALSE /\ wg = 0
    /\ feedPc = "idle" /\ fed = 0 /\ closerPc = "idle"
    /\ success = 0 /\ fail = 0 /\ totalOrig = 0 /\ totalConv = 0
    /\ wpc = [w \in Workers |-> "idle"]
    /\ fi = [w \in Workers |-> NoFile]
    /\ res = [w \in Workers |-> ConvertResult(NoPath, 0)]
    /\ outPath = [w \in Workers |-> NoPath]
    /\ try = [w \in Workers |-> 0]
    /\ uniquePath = [w \in Workers |-> ""]
    /\ tmpPath = [w \in Workers |-> ""]
    /\ tmpRemoved = [w \in Workers |-> FALSE]
    /\ sentLog = EmptyLog /\ recvLog = EmptyLog /\ encCalls = 0
    /\ panicked = FALSE /\ placed = {}
    /\ lookups = 0 /\ encLog = {}

\* no directory scan and no token are under way
NoScan == entries = <<>> /\ visited = 0 /\ out = <<>> /\ counts = EmptyLog
NoToken == randOk = TRUE /\ rb = <<>> /\ nano = 0 /\ token = <<>> /\ tokPc = "idle"

InitOf(keptLists, stampedLists) ==
    PoolStart(keptLists, stampedLists) /\ NoScan /\ NoToken

Init == InitOf(JobLists(TRUE), JobLists(FALSE))

\* ------------------------------------------------------------- main
\* lines 45-51: the input must be a directory
Validate ==
    /\ mainPc = "validate"
    /\ mainPc' = IF inputIsDir THEN "format" ELSE "fatal"
    /\ UNCHANGED <<flagVars, diskVars, i, numWorkers, preview, chanVars, goVars,
                   aggVars, wkVars, histVars>>

\* lines 83-86: some file of the requested format must have been found
CheckFormat ==
    /\ mainPc = "format"
    /\ mainPc' = IF Len(toConvert) = 0 THEN "fatal" ELSE "mkdir"
    /\ UNCHANGED <<flagVars, diskVars, i, numWorkers, preview, chanVars, goVars,
                   aggVars, wkVars, histVars>>

\* lines 88-95: os.MkdirAll(outDir) creates the directory when it is missing, or fails
MkdirAll ==
    /\ mainPc = "mkdir"
    /\ \/ /\ outDirExists' = TRUE
          /\ mainPc' = IF dryRun THEN "dry" ELSE "lookpath"
       \/ /\ ~outDirExists
          /\ outDirExists' = FALSE
          /\ mainPc' = "fatal"
    /\ UNCHANGED <<flagVars, fs, i, numWorkers, preview, chanVars, goVars,
                   aggVars, wkVars, histVars>>

\* lines 106-113: the dry run prints one destination per file and returns
DryRunPrint ==
    /\ mainPc = "dry"
    /\ IF Len(preview) < Len(toConvert)
       THEN \E rnd \in Rnds :
              LET f == toConvert[Len(preview) + 1]
                  outName == makeOutputFilename(f, prefix, keepName, rnd)
              IN preview' = Append(preview, PathStr(Join(OutDir, outName)))
       ELSE preview' = preview
    /\ mainPc' = IF Len(preview) < Len(toConvert) THEN "dry" ELSE "done"
    /\ UNCHANGED <<flagVars, diskVars, i, numWorkers, chanVars, goVars,
                   aggVars, wkVars, histVars>>

\* lines 116-118: a failed lookup is fatal
AfterLookPathIgnoresError(found) == "spawn"
AfterLookPath(found) == IF found THEN "spawn" ELSE "fatal"

\* lines 115-123: exec.LookPath("avifenc"), then the two channels are made
LookPath ==
    /\ mainPc = "lookpath"
    /\ mainPc' = AfterLookPath(encoderFound)
    /\ lookups' = lookups + 1
    /\ UNCHANGED <<flagVars, diskVars, i, numWorkers, preview, chanVars, goVars,
                   aggVars, wkVars, sentLog, recvLog, encCalls, panicked, placed, encLog>>

\* lines 126-129: a non-positive worker count becomes 1
CoerceWorkersNot(k) == k
CoerceWorkers(k) == IF k <= 0 THEN 1 ELSE k

\* lines 126-147: one worker is started per iteration (wg.Add(1); go worker);
\* after the loop the feeder and the closer goroutines are started
Spawn ==
    /\ mainPc = "spawn"
    /\ numWorkers' = CoerceWorkers(workers)
    /\ IF i < numWorkers'
       THEN /\ wg' = wg + 1
            /\ wpc' = [wpc EXCEPT ![i + 1] = "recv"]
            /\ i' = i + 1
            /\ UNCHANGED <<mainPc, goVars>>
       ELSE /\ feedPc' = "feed"
            /\ closerPc' = "wait"
            /\ mainPc' = "collect"
            /\ UNCHANGED <<wg, wpc, i, fed>>
    /\ UNCHANGED <<flagVars, diskVars, preview, jobCh, jobChClosed, results,
                   resultsClosed, aggVars, fi, res, outPath, try, uniquePath,
                   tmpPath, tmpRemoved, histVars>>

\* ------------------------------------------------------------- feeder, closer
CapOneLess == Len(toConvert) - 1
\* cap(jobCh) = cap(results) = len(toConvert) (lines 121, 123)
Cap == Len(toConvert)

\* lines 137-140: jobCh <- f for every job, then close(jobCh)
Feed ==
    /\ feedPc = "feed"
    /\ IF fed < Len(toConvert)
       THEN /\ Len(jobCh) < Cap
            /\ jobCh' = Append(jobCh, toConvert[fed + 1])
            /\ fed' = fed + 1
            /\ UNCHANGED <<jobChClosed, feedPc>>
       ELSE /\ jobChClosed' = TRUE
            /\ feedPc' = "done"
            /\ UNCHANGED <<jobCh, fed>>
    /\ UNCHANGED <<flagVars, diskVars, mainVars, results, resultsClosed, wg,
                   closerPc, aggVars, wkVars, histVars>>

\* wg.Wait() returns when the counter is zero (line 145)
WaitDoneAtOnce(counter) == TRUE
WaitDone(counter) == counter = 0

\* lines 145-146: wg.Wait(); close(results)
CloseResults ==
    /\ closerPc = "wait"
    /\ WaitDone(wg)
    /\ resultsClosed' = TRUE
    /\ closerPc' = "done"
    /\ UNCHANGED <<flagVars, diskVars, mainVars, jobCh, jobChClosed, results, wg,
                   feedPc, fed, aggVars, wkVars, histVars>>

\* ------------------------------------------------------------- aggregator
\* lines 153-166: one received result added to the tallies
CountSuccessByDst(n, r) == IF r.Dst = "" THEN n ELSE n + 1
CountSuccess(n, r) == IF r.Err # Nil THEN n ELSE n + 1
CountFail(n, r) == IF r.Err # Nil THEN n + 1 ELSE n
AddOrigOfEvery(total, r) == total + r.OrigBytes
AddOrig(total, r) == IF r.Err # Nil THEN total ELSE total + r.OrigBytes
AddConv(total, r) == IF r.Err # Nil THEN total ELSE total + r.ConvBytes

\* line 152: for r := range results, one iteration, or the loop's end on a
\* closed and drained channel (then the summary, lines 169-176)
Collect ==
    /\ mainPc = "collect"
    /\ IF results # <<>>
       THEN LET r == Head(results) IN
            /\ results' = Tail(results)
            /\ success' = CountSuccess(success, r)
            /\ fail' = CountFail(fail, r)
            /\ totalOrig' = AddOrig(totalOrig, r)
            /\ totalConv' = AddConv(totalConv, r)
            /\ UNCHANGED mainPc
       ELSE /\ resultsClosed
            /\ mainPc' = "done"
            /\ UNCHANGED <<results, aggVars>>
    /\ UNCHANGED <<flagVars, diskVars, i, numWorkers, preview, jobCh, jobChClosed,
                   resultsClosed, wg, goVars, wkVars, histVars>>

\* ------------------------------------------------------------- worker
\* a receive from a channel takes its first element off the channel
ReceiveLeavesElement(ch) == ch
Receive(ch) == Tail(ch)

\* a send on results (lines 274, 283, 304, 313, 329, 333)
Send(ch, r) == Append(ch, r)

\* what every worker step leaves alone
WorkerFrame ==
    UNCHANGED <<flagVars, outDirExists, mainVars, jobChClosed, resultsClosed,
                goVars, aggVars>>

\* lines 264-268: for fi := range jobs; the result is initialised and the
\* output path is built.  On a closed and drained channel the worker returns
\* (deferred wg.Done()).
Recv(w) ==
    /\ wpc[w] = "recv"
    /\ IF jobCh # <<>>
       THEN \E rnd \in Rnds :
              LET f == Head(jobCh)
                  outName == makeOutputFilename(f, prefix, keepName, rnd)
              IN /\ jobCh' = Receive(jobCh)
                 /\ fi' = [fi EXCEPT ![w] = f]
                 /\ res' = [res EXCEPT ![w] = ConvertResult(f.Path, f.Size)]
                 /\ outPath' = [outPath EXCEPT ![w] = Join(OutDir, outName)]
                 /\ try' = [try EXCEPT ![w] = 0]
                 /\ wpc' = [wpc EXCEPT ![w] = "unique"]
                 /\ recvLog' = Logged(recvLog, <<w, f.Path>>)
                 /\ UNCHANGED wg
       ELSE /\ jobChClosed
            /\ wg' = wg - 1
            /\ wpc' = [wpc EXCEPT ![w] = "done"]
            /\ UNCHANGED <<jobCh, fi, res, outPath, try, recvLog>>
    /\ UNCHANGED <<fs, results, uniquePath, tmpPath, tmpRemoved,
                   sentLog, encCalls, panicked, placed, lookups, encLog>>
    /\ WorkerFrame

\* os.IsNotExist(err) of os.Stat(p) (lines 339, 348)
IsNotExistAlways(fsys, p) == TRUE
IsNotExist(fsys, p) == ~Exists(fsys, p)

\* first suffix the loop of line 346 tries
FirstSuffixSkipsOne == 1 + 1
FirstSuffix == 1

\* line 277: res.Dst = uniquePath
ResolvedDstUnset(c) == ""
ResolvedDst(c) == c

\* lines 272-276: when ensureUniquePath fails the result is sent and the job ends
AfterUniqueFailureGoesOn == "temp"
AfterUniqueFailure == "send"

\* ensureUniquePath (lines 338-353), one os.Stat per step: try = 0 is the
\* path itself, try = n the candidate with suffix n; the first path that does
\* not exist is returned (line 277: res.Dst = uniquePath), and past the last
\* suffix the call fails (lines 272-275)
EnsureUniqueStep(w) ==
    /\ wpc[w] = "unique"
    /\ LET c == Candidate(outPath[w], try[w]) IN
       IF IsNotExist(fs, c)
       THEN /\ uniquePath' = [uniquePath EXCEPT ![w] = c]
            /\ res' = [res EXCEPT ![w].Dst = ResolvedDst(c)]
            /\ wpc' = [wpc EXCEPT ![w] = "temp"]
            /\ UNCHANGED try
       ELSE IF (IF try[w] = 0 THEN FirstSuffix ELSE try[w] + 1) < SuffixLimit
       THEN /\ try' = [try EXCEPT ![w] = IF try[w] = 0 THEN FirstSuffix ELSE try[w] + 1]
            /\ UNCHANGED <<uniquePath, res, wpc>>
       ELSE /\ res' = [res EXCEPT ![w].Err = ErrUnique]
            /\ wpc' = [wpc EXCEPT ![w] = AfterUniqueFailure]
            /\ UNCHANGED <<uniquePath, try>>
    /\ UNCHANGED <<fs, jobCh, results, wg, fi, outPath, tmpPath, tmpRemoved, histVars>>
    /\ WorkerFrame

\* lines 281-285: on CreateTemp's failure the result is sent before `continue`
AfterTempFailureSkipsSend == "recv"
AfterTempFailure == "send"

\* lines 280-290: os.CreateTemp makes a new empty file under a name that does
\* not exist yet, or fails
CreateTemp(w) ==
    /\ wpc[w] = "temp"
    /\ \/ \E t \in { TmpName(outPath[w].dir, k) : k \in 1..MaxTmp } :
            /\ ~Exists(fs, t)
            /\ fs' = WriteFile(fs, t, Empty(fi[w]))
            /\ tmpPath' = [tmpPath EXCEPT ![w] = t]
            /\ tmpRemoved' = [tmpRemoved EXCEPT ![w] = FALSE]
            /\ wpc' = [wpc EXCEPT ![w] = "enc"]
            /\ UNCHANGED res
       \/ /\ res' = [res EXCEPT ![w].Err = ErrTemp]
          /\ wpc' = [wpc EXCEPT ![w] = AfterTempFailure]
          /\ UNCHANGED <<fs, tmpPath, tmpRemoved>>
    /\ UNCHANGED <<jobCh, results, wg, fi, outPath, try, uniquePath, histVars>>
    /\ WorkerFrame

\* lines 301-306: when avifenc fails the temp file is removed, the result is
\* sent and the job ends
AfterEncoderFailureKeepsTemp == "send"
AfterEncoderFailureGoesOn == "rename"
AfterEncoderFailure == "rmEnc"

\* lines 299-301: avifenc runs on fi.Path and tmpPath; it exits zero with the
\* whole output in tmpPath, or non-zero leaving tmpPath as it was or partly written
Encode(w) ==
    /\ wpc[w] = "enc"
    /\ encCalls' = encCalls + 1
    /\ encLog' = encLog \cup {fi[w].Path}
    /\ \/ \E n \in EncSizes(fi[w]) :
            /\ fs' = WriteFile(fs, tmpPath[w], Encoded(fi[w], n))
            /\ wpc' = [wpc EXCEPT ![w] = "rename"]
            /\ UNCHANGED res
       \/ \E c \in {fs[tmpPath[w]], Partial(Encoded(fi[w], fi[w].Size))} :
            /\ fs' = WriteFile(fs, tmpPath[w], c)
            /\ res' = [res EXCEPT ![w].Err = ErrEnc]
            /\ wpc' = [wpc EXCEPT ![w] = AfterEncoderFailure]
    /\ UNCHANGED <<jobCh, results, wg, fi, outPath, try, uniquePath, tmpPath,
                   tmpRemoved, sentLog, recvLog, panicked, placed, lookups>>
    /\ WorkerFrame

\* the closure removeTmp (lines 291-296): the disk after it
removeTmpKeepsFile(fsys, path, removed) == fsys
removeTmp(fsys, path, removed) ==
    IF ~removed /\ Exists(fsys, path) THEN RemoveFile(fsys, path) ELSE fsys

\* removeTmp() on the encoder's failure (line 302) and on the failure of
\* rename and copy (line 311); the result is sent next
RemoveTmp(w) ==
    /\ wpc[w] \in {"rmEnc", "rmSave"}
    /\ fs' = removeTmp(fs, tmpPath[w], tmpRemoved[w])
    /\ tmpRemoved' = [tmpRemoved EXCEPT ![w] = TRUE]
    /\ wpc' = [wpc EXCEPT ![w] = "send"]
    /\ UNCHANGED <<jobCh, results, wg, fi, res, outPath, try, uniquePath, tmpPath, histVars>>
    /\ WorkerFrame

\* line 309: os.Rename(tmpPath, uniquePath) moves the temp file onto the
\* destination (lines 319-322), or fails and the copy is tried
Rename(w) ==
    /\ wpc[w] = "rename"
    /\ \/ /\ fs' = RenameFile(fs, tmpPath[w], uniquePath[w])
          /\ tmpRemoved' = [tmpRemoved EXCEPT ![w] = TRUE]
          /\ placed' = placed \cup {<<uniquePath[w], fi[w].Path>>}
          /\ wpc' = [wpc EXCEPT ![w] = "stat"]
       \/ /\ wpc' = [wpc EXCEPT ![w] = "copyOpen"]
          /\ UNCHANGED <<fs, tmpRemoved, placed>>
    /\ UNCHANGED <<jobCh, results, wg, fi, res, outPath, try, uniquePath, tmpPath,
                   sentLog, recvLog, encCalls, panicked, lookups, encLog>>
    /\ WorkerFrame

\* copyFile, lines 357-365: os.Open(src) and os.Create(dst); Create makes dst
\* an empty file (truncating what was there); either call may fail (line 310)
CopyOpen(w) ==
    /\ wpc[w] = "copyOpen"
    /\ \/ /\ fs' = WriteFile(fs, uniquePath[w], Empty(fi[w]))
          /\ wpc' = [wpc EXCEPT ![w] = "copyData"]
          /\ UNCHANGED res
       \/ /\ res' = [res EXCEPT ![w].Err = ErrSave]
          /\ wpc' = [wpc EXCEPT ![w] = "rmSave"]
          /\ UNCHANGED fs
    /\ UNCHANGED <<jobCh, results, wg, fi, outPath, try, uniquePath, tmpPath,
                   tmpRemoved, histVars>>
    /\ WorkerFrame

\* copyFile, lines 366-371: io.Copy writes src's bytes to dst, all of them or,
\* on an error, some of them; then Sync and Close
CopyData(w) ==
    /\ wpc[w] = "copyData"
    /\ \/ /\ fs' = WriteFile(fs, uniquePath[w], fs[tmpPath[w]])
          /\ placed' = placed \cup {<<uniquePath[w], fi[w].Path>>}
          /\ wpc' = [wpc EXCEPT ![w] = "rmCopy"]
          /\ UNCHANGED res
       \/ /\ fs' = WriteFile(fs, uniquePath[w], Partial(fs[tmpPath[w]]))
          /\ res' = [res EXCEPT ![w].Err = ErrSave]
          /\ wpc' = [wpc EXCEPT ![w] = "rmSave"]
          /\ UNCHANGED placed
    /\ UNCHANGED <<jobCh, results, wg, fi, outPath, try, uniquePath, tmpPath,
                   tmpRemoved, sentLog, recvLog, encCalls, panicked, lookups, encLog>>
    /\ WorkerFrame

\* lines 316-318: the copy succeeded: os.Remove(tmpPath); tmpRemoved = true
RemoveAfterCopy(w) ==
    /\ wpc[w] = "rmCopy"
    /\ fs' = removeTmp(fs, tmpPath[w], FALSE)
    /\ tmpRemoved' = [tmpRemoved EXCEPT ![w] = TRUE]
    /\ wpc' = [wpc EXCEPT ![w] = "stat"]
    /\ UNCHANGED <<jobCh, results, wg, fi, res, outPath, try, uniquePath, tmpPath, histVars>>
    /\ WorkerFrame

\* lines 325-332: os.Stat(uniquePath) gives the converted size, or fails
StatOutput(w) ==
    /\ wpc[w] = "stat"
    /\ \/ /\ Exists(fs, uniquePath[w])
          /\ res' = [res EXCEPT ![w].ConvBytes = fs[uniquePath[w]].size, ![w].Err = Nil]
       \/ res' = [res EXCEPT ![w].Err = ErrStat]
    /\ wpc' = [wpc EXCEPT ![w] = "send"]
    /\ UNCHANGED <<fs, jobCh, results, wg, fi, outPath, try, uniquePath, tmpPath,
                   tmpRemoved, histVars>>
    /\ WorkerFrame

\* results <- res, then the loop's next iteration (continue); the iteration's
\* locals go out of scope.  A send on a closed channel panics.
SendResult(w) ==
    /\ wpc[w] = "send"
    /\ IF resultsClosed
       THEN /\ panicked' = TRUE
            /\ UNCHANGED <<results, sentLog>>
       ELSE /\ Len(results) < Cap
            /\ results' = Send(results, res[w])
            /\ sentLog' = Logged(sentLog, res[w])
            /\ UNCHANGED panicked
    /\ wpc' = [wpc EXCEPT ![w] = "recv"]
    /\ fi' = [fi EXCEPT ![w] = NoFile]
    /\ res' = [res EXCEPT ![w] = ConvertResult(NoPath, 0)]
    /\ outPath' = [outPath EXCEPT ![w] = NoPath]
    /\ try' = [try EXCEPT ![w] = 0]
    /\ uniquePath' = [uniquePath EXCEPT ![w] = ""]
    /\ tmpPath' = [tmpPath EXCEPT ![w] = ""]
    /\ tmpRemoved' = [tmpRemoved EXCEPT ![w] = FALSE]
    /\ UNCHANGED <<fs, jobCh, wg, recvLog, encCalls, placed, lookups, encLog>>
    /\ WorkerFrame

\* ------------------------------------------------------------- specification
WorkerStep(w) ==
    \/ Recv(w) \/ EnsureUniqueStep(w) \/ CreateTemp(w) \/ Encode(w) \/ RemoveTmp(w)
    \/ Rename(w) \/ CopyOpen(w) \/ CopyData(w) \/ RemoveAfterCopy(w)
    \/ StatOutput(w) \/ SendResult(w)

MainStep ==
    \/ Validate \/ CheckFormat \/ MkdirAll \/ DryRunPrint \/ LookPath \/ Spawn \/ Collect

Next == MainStep \/ Feed \/ CloseResults \/ \E w \in Workers : WorkerStep(w)

Spec == Init /\ [][Next]_vars

\* the runs explored for termination: names kept, and an output directory
\* that is empty or holds every candidate of the first job's output name (the
\* names and the directory's content play no part in the pool's termination)
LiveInit ==
    /\ Init
    /\ keepName
    /\ DOMAIN before \in {{}, PreUniverse(toConvert, prefix, keepName)}

\* the end-to-end example: three files of 100, 200 and 300 bytes, two workers,
\* an empty output directory
ExampleJobs ==
    { <<FileInfo("d1", "x", 100), FileInfo("d2", "x-1", 200), FileInfo("d3", "y", 300)>> }

ExampleInit ==
    /\ InitOf(ExampleJobs, ExampleJobs)
    /\ keepName /\ workers = 2 /\ DOMAIN before = {}

ExampleSpec == ExampleInit /\ [][Next]_vars

\* every goroutine that can take a step eventually takes one (Go's scheduler)
FairSpec ==
    /\ LiveInit /\ [][Next]_vars
    /\ WF_vars(MainStep) /\ WF_vars(Feed) /\ WF_vars(CloseResults)
    /\ \A w \in Workers : WF_vars(WorkerStep(w))

\* ------------------------------------------------------------- helpers of the claims
RECURSIVE SumOver(_, _)
\* sum of f[x] over the elements x of the set S
SumOver(f, S) ==
    IF S = {} THEN 0
    ELSE LET x == CHOOSE y \in S : TRUE
         IN f[x] + SumOver(f, S \ {x})

\* what a result r adds to the count or sum named kind
Val(kind, r) ==
    CASE kind = "all" -> 1
      [] kind = "ok" -> IF r.Err = Nil THEN 1 ELSE 0
      [] kind = "failed" -> IF r.Err # Nil THEN 1 ELSE 0
      [] kind = "orig" -> IF r.Err = Nil THEN r.OrigBytes ELSE 0
      [] kind = "conv" -> IF r.Err = Nil THEN r.ConvBytes ELSE 0

\* the count or sum named kind over the results sent (with multiplicity)
SentSum(kind) ==
    SumOver([r \in DOMAIN sentLog |-> sentLog[r] * Val(kind, r)], DOMAIN sentLog)
\* the same over the results buffered in the results channel
BufferedSum(kind) ==
    SumOver([k \in 1..Len(results) |-> Val(kind, results[k])], 1..Len(results))
\* the same over the results the aggregator has received: sent and no longer buffered
ReceivedSum(kind) == SentSum(kind) - BufferedSum(kind)

\* number of results sent so far for the source path src
NumSent(src) ==
    SumOver([r \in DOMAIN sentLog |-> IF r.Src = src THEN sentLog[r] ELSE 0], DOMAIN sentLog)
\* number of times the job of source path src was received from jobCh
NumReceived(src) ==
    SumOver([e \in DOMAIN recvLog |-> IF e[2] = src THEN recvLog[e] ELSE 0], DOMAIN recvLog)
\* number of workers that are processing the job of source path src
NumHolding(src) == Cardinality({w \in Workers : fi[w].Path = src})
\* number of places of jobCh that hold the job of source path src
NumQueued(src) == Cardinality({k \in 1..Len(jobCh) : jobCh[k].Path = src})

JobIds == 1..Len(toConvert)
PoolStarted == feedPc # "idle"
PoolFinished == PoolStarted /\ resultsClosed
InFlight == {"enc", "rmEnc", "rename", "copyOpen", "copyData", "rmSave", "rmCopy"}

\* ------------------------------------------------------------- C1
\* C1: every job gets exactly one result: a job that a worker has taken and
\* finished has one result sent, any other job none, every result carries its
\* job's Src and OrigBytes, and when the pool has finished there are as many
\* results as jobs.
C1_OneResultPerJob ==
    /\ \A k \in JobIds :
         LET src == toConvert[k].Path IN
         /\ NumSent(src) + NumHolding(src) = NumReceived(src)
         /\ NumSent(src) <= 1
         /\ PoolFinished => NumSent(src) = 1
    /\ \A r \in DOMAIN sentLog :
         \E k \in JobIds : r.Src = toConvert[k].Path /\ r.OrigBytes = toConvert[k].Size
    /\ PoolFinished => SentSum("all") = Len(toConvert)

\* the pool has finished two jobs, one failed on the temp file, one succeeded
C1_Witness ==
    /\ PoolFinished
    /\ \E r1, r2 \in DOMAIN sentLog : r1.Err = ErrTemp /\ r2.Err = Nil

\* ------------------------------------------------------------- C2
\* C2: no two distinct jobs write to the same destination path: no path has
\* had the outputs of two different sources renamed or copied onto it, and the
\* Dst of two successful results of different sources differ.  Stated for
\* keep-name runs, where equal output names come from the input files and not
\* from equal random tokens.
C2_NoSharedDestination ==
    keepName =>
    /\ \A a, b \in placed : a[1] = b[1] => a[2] = b[2]
    /\ \A r1, r2 \in DOMAIN sentLog :
         r1.Err = Nil /\ r2.Err = Nil /\ r1.Src # r2.Src => r1.Dst # r2.Dst

C4_DeliveredExactlyOnce ==
    \A k \in JobIds :
      LET src == toConvert[k].Path IN
      /\ NumQueued(src) + NumReceived(src) = (IF k <= fed THEN 1 ELSE 0)
      /\ (PoolStarted /\ \A w \in 1..numWorkers : wpc[w] = "done") => NumReceived(src) = 1

\* two workers have each received one of two jobs
C4_Witness ==
    /\ Len(toConvert) = 2
    /\ Count(recvLog, <<1, toConvert[2].Path>>) = 1
    /\ Count(recvLog, <<2, toConvert[1].Path>>) = 1

\* ------------------------------------------------------------- C5
\* C5: results is closed only after all jobs were fed, jobCh was closed and
\* drained and every worker returned; no send on the closed channel happens;
\* the aggregator's loop ends only after it has received a result for every job.
C5_CloseAfterWorkers ==
    /\ resultsClosed => /\ fed = Len(toConvert)
                        /\ jobChClosed /\ jobCh = <<>>
                        /\ numWorkers >= 1
                        /\ \A w \in 1..numWorkers : wpc[w] = "done"
                        /\ SentSum("all") = Len(toConvert)
    /\ ~panicked
    /\ (PoolStarted /\ mainPc = "done") => /\ resultsClosed /\ results = <<>>
                                           /\ success + fail = Len(toConvert)

\* results is closed while the aggregator has yet to receive a buffered result
C5_Witness ==
    /\ resultsClosed /\ mainPc = "collect" /\ Len(results) = 2 /\ numWorkers = 2

\* ------------------------------------------------------------- C6
\* the unsuffixed output path of job k in keep-name mode
KeptPath(k) ==
    Join(OutDir, makeOutputFilename(toConvert[k], prefix, TRUE, ""))
\* every job's unsuffixed output exists at start, as after an earlier run
SecondRun == keepName /\ \A k \in JobIds : Candidate(KeptPath(k), 0) \in DOMAIN before

\* C6: a file that exists when the run starts keeps its content and is never
\* the target of a rename or a copy; in a second keep-name run every output is
\* written to a path with a suffix n >= 1 of its job's name.
C6_ExistingFilesUntouched ==
    /\ \A p \in DOMAIN before : Exists(fs, p) /\ fs[p] = before[p]
    /\ \A a \in placed : a[1] \notin DOMAIN before
    /\ \A r \in DOMAIN sentLog : r.Err = Nil => r.Dst \notin DOMAIN before
    /\ SecondRun =>
         \A a \in placed : \E k \in JobIds :
            /\ toConvert[k].Path = a[2]
            /\ \E n \in 1..(SuffixLimit - 1) : a[1] = Candidate(KeptPath(k), n)

\* a second keep-name run of two jobs has written a suffixed output
C6_Witness ==
    /\ SecondRun /\ Len(toConvert) = 2 /\ PoolFinished
    /\ \E a \in placed : a[1] = Candidate(KeptPath(1), 2)

\* ------------------------------------------------------------- C7
\* C7: when ensureUniquePath returns, the returned path does not exist; it is
\* the path itself when that does not exist; otherwise it is not the path but
\* the candidate of the smallest suffix n >= 1 whose path does not exist (all
\* candidates of smaller suffixes, and the path itself, exist).
C7_SmallestFreeSuffix ==
    [][\A w \in Workers :
         (wpc[w] = "unique" /\ wpc'[w] = "temp") =>
            LET p == outPath[w]
                r == uniquePath'[w]
            IN /\ ~Exists(fs, r)
               /\ ~Exists(fs, Candidate(p, 0)) => r = Candidate(p, 0)
               /\ Exists(fs, Candidate(p, 0)) =>
                    /\ r # Candidate(p, 0)
                    /\ \E n \in 1..(SuffixLimit - 1) :
                         /\ r = Candidate(p, n)
                         /\ \A m \in 0..(n - 1) : Exists(fs, Candidate(p, m))]_vars

\* ensureUniquePath has returned the candidate of suffix 2
C7_Witness ==
    \E w \in Workers : /\ wpc[w] = "temp"
                       /\ uniquePath[w] = Candidate(outPath[w], 2)
                       /\ Exists(fs, Candidate(outPath[w], 0))

\* ------------------------------------------------------------- C8
\* C8: the worker count is the flag, or 1 for a flag of zero or less; once
\* the pool is started, whatever jobs fail, the results channel is eventually
\* closed and the aggregator ends with a tally that counts every job.
C8_PoolTerminates ==
    /\ [](PoolStarted => numWorkers = (IF workers <= 0 THEN 1 ELSE workers))
    /\ (PoolStarted ~> (mainPc = "done" /\ resultsClosed
                        /\ success + fail = Len(toConvert)))

\* a run with a non-positive worker flag ended with a failed and a successful job
C8_Witness ==
    /\ PoolStarted /\ mainPc = "done" /\ workers <= 0 /\ fail >= 1 /\ success >= 1

\* ------------------------------------------------------------- C9
\* C9: the tallies are those of the results received: success counts the
\* results without error, fail those with one, totalOrig and totalConv sum
\* OrigBytes and ConvBytes of the successful results only; at the end
\* success + fail is the number of jobs.
C9_Tallies ==
    /\ success = ReceivedSum("ok")
    /\ fail = ReceivedSum("failed")
    /\ totalOrig = ReceivedSum("orig")
    /\ totalConv = ReceivedSum("conv")
    /\ (PoolStarted /\ mainPc = "done") => success + fail = Len(toConvert)

\* the three jobs of 100, 200 and 300 bytes all succeeded with half the size
C9_Witness ==
    /\ PoolStarted /\ mainPc = "done" /\ Len(toConvert) = 3
    /\ success = 3 /\ fail = 0 /\ totalOrig = 600 /\ totalConv = 300

\* ------------------------------------------------------------- C10
\* C10: in dry-run mode no encoder runs, no worker starts, nothing is written
\* (no directory, temp file or output file is created), and every previewed
\* destination is a path that does not exist.
C10_DryRunWritesNothing ==
    dryRun => /\ encCalls = 0
              /\ \A w \in Workers : wpc[w] = "idle"
              /\ fs = before
              /\ outDirExists = outDirBefore
              /\ \A k \in 1..Len(preview) : ~Exists(fs, preview[k])

\* ------------------------------------------------------------- C11
\* the files on disk that the job of source path src wrote, under any name
FilesOf(src) == { p \in DOMAIN fs : fs[p].by = PathStr(src) }

NothingStarted ==
    /\ ~PoolStarted /\ closerPc = "idle"
    /\ \A w \in Workers : wpc[w] = "idle"
    /\ jobCh = <<>> /\ fed = 0 /\ results = <<>>
    /\ encCalls = 0 /\ encLog = {} /\ sentLog = EmptyLog /\ recvLog = EmptyLog

\* C12: a fatal precondition (input not a directory, no file of the requested
\* format, encoder not on the search path) stops the process before the pool
\* starts: no worker started, no job queued, no encoder run, no result, and
\* no further step; the encoder is looked up at most once, exactly once
\* before any worker starts, and not at all when an earlier check is fatal.
C12_FatalStopsBeforePool ==
    /\ lookups <= 1
    /\ mainPc = "fatal" => NothingStarted /\ ~ENABLED Next
    /\ (~inputIsDir \/ toConvert = <<>> \/ ~encoderFound) => NothingStarted
    /\ (~inputIsDir \/ toConvert = <<>>) => lookups = 0
    /\ ~NothingStarted => lookups = 1 /\ encoderFound

\* the encoder was looked up once and not found; the process has stopped
C12_Witness ==
    /\ mainPc = "fatal" /\ inputIsDir /\ toConvert # <<>> /\ ~encoderFound
    /\ lookups = 1 /\ \A w \in Workers : wpc[w] = "idle"

\* ------------------------------------------------------------- scanDirectory
\* A path of the walk is the sequence of its characters, so that filepath.Ext,
\* strings.TrimPrefix and strings.ToLower do on it what they do in Go.

\* the number of entries of the walked tree
MaxEntries == 3

\* the upper-case letters of the paths explored, and their lower-case forms
Upper == <<"A", "E", "G", "J", "P">>
Lower == <<"a", "e", "g", "j", "p">>
ToLowerChar(c) ==
    IF \E k \in 1..Len(Upper) : Upper[k] = c
    THEN Lower[CHOOSE k \in 1..Len(Upper) : Upper[k] = c]
    ELSE c
\* strings.ToLower
ToLower(s) == [k \in 1..Len(s) |-> ToLowerChar(s[k])]

\* filepath.Ext: the suffix from the last dot of the last path element, empty
\* when that element has no dot
FinalDots(s) == { k \in 1..Len(s) : s[k] = "." /\ \A m \in k..Len(s) : s[m] # "/" }
FilepathExt(s) ==
    IF FinalDots(s) = {} THEN <<>>
    ELSE SubSeq(s, CHOOSE k \in FinalDots(s) : \A m \in FinalDots(s) : m <= k, Len(s))

\* strings.TrimPrefix for a prefix of one character
TrimPrefix(s, c) == IF s # <<>> /\ s[1] = c THEN Tail(s) ELSE s

Jpg == <<"j", "p", "g">>
Jpeg == <<"j", "p", "e", "g">>
\* lines 185-193
extAllowed ==
    { Jpg, Jpeg, <<"p", "n", "g">>, <<"b", "m", "p">>, <<"t", "i", "f", "f">>,
      <<"w", "e", "b", "p">>, <<"h", "e", "i", "c">> }

\* line 204
LowerExt(path) == ToLower(TrimPrefix(FilepathExt(path), "."))

\* lines 211-214: normalize jpeg -> jpg
normalizeExtNot(ext) == ext
normalizeExt(ext) == IF ext = Jpeg THEN Jpg ELSE ext

\* what WalkDir hands to the callback for one entry: the path, whether it is a
\* directory, whether the walk failed on it, whether d.Info() fails, its size
DirEntry(path, isDir, walkErr, infoErr, size) ==
    [path |-> path, isDir |-> isDir, walkErr |-> walkErr, infoErr |-> infoErr,
     size |-> size, modTime |-> Dates[1]]

\* the FileInfo of lines 220-225
ScannedFile(d, ext) ==
    [Path |-> d.path, ModTime |-> d.modTime, Ext |-> ext, Size |-> d.size]

\* the entries a walked tree is made of, in the lexical order WalkDir visits
\* them in: hidden, upper-case, dotted and extension-less names, a directory
\* with a dotted name and a file in it, an entry the walk fails on and one
\* whose Info fails
Tree ==
    <<
       DirEntry(<<"i", "n", "/", ".", "j", "p", "e", "g">>, FALSE, FALSE, FALSE, 10),
       DirEntry(<<"i", "n", "/", "A", ".", "J", "P", "E", "G">>, FALSE, FALSE, FALSE, 20),
       DirEntry(<<"i", "n", "/", "a">>, FALSE, FALSE, FALSE, 30),
       DirEntry(<<"i", "n", "/", "a", ".">>, FALSE, FALSE, FALSE, 40),
       DirEntry(<<"i", "n", "/", "a", ".", "J", "p", "g">>, FALSE, FALSE, FALSE, 50),
       DirEntry(<<"i", "n", "/", "a", ".", "j", "p", "e", "g">>, FALSE, FALSE, FALSE, 60),
       DirEntry(<<"i", "n", "/", "a", ".", "j", "p", "e", "g", ".", "g", "z">>, FALSE, FALSE, FALSE, 70),
       DirEntry(<<"i", "n", "/", "a", ".", "j", "p", "g">>, FALSE, FALSE, FALSE, 80),
       DirEntry(<<"i", "n", "/", "a", ".", "p", "n", "g">>, FALSE, FALSE, FALSE, 90),
       DirEntry(<<"i", "n", "/", "b", ".", "j", "p", "e", "g">>, FALSE, FALSE, TRUE, 100),
       DirEntry(<<"i", "n", "/", "d", ".", "j", "p", "g">>, TRUE, FALSE, FALSE, 110),
       DirEntry(<<"i", "n", "/", "d", ".", "j", "p", "g", "/", "e">>, FALSE, FALSE, FALSE, 120),
       DirEntry(<<"i", "n", "/", "e", ".", "j", "p", "e", "g">>, FALSE, TRUE, FALSE, 130),
       DirEntry(<<"i", "n", "/", "g", ".", "g", "z", ".", "j", "p", "e", "g">>, FALSE, FALSE, FALSE, 140)
    >>

\* the k-th smallest member of a set of numbers
Nth(S, k) == CHOOSE x \in S : Cardinality({ y \in S : y < x }) = k - 1

\* the walks explored: any MaxEntries or fewer entries of Tree, a file of the
\* directory only together with the directory
Walks ==
    { [k \in 1..Cardinality(S) |-> Tree[Nth(S, k)]] :
        S \in { T \in SUBSET (1..Len(Tree)) :
                  /\ Cardinality(T) <= MaxEntries
                  /\ \A a \in T : \A b \in 1..Len(Tree) :
                       (Tree[b].isDir /\ Len(Tree[b].path) < Len(Tree[a].path)
                        /\ SubSeq(Tree[a].path, 1, Len(Tree[b].path)) = Tree[b].path)
                       => b \in T } }

\* scanDirectory starts on a tree; the pool is not running
ScanInit ==
    /\ PoolStart({<<>>}, {<<>>})
    /\ ~dryRun /\ keepName /\ workers = 1 /\ prefix = "" /\ inputIsDir /\ encoderFound
    /\ ~outDirExists
    /\ NoToken
    /\ entries \in Walks
    /\ visited = 0 /\ out = <<>> /\ counts = EmptyLog

\* the callback of filepath.WalkDir (lines 197-228) on the next entry
WalkFn ==
    /\ visited < Len(entries)
    /\ visited' = visited + 1
    /\ LET d == entries[visited + 1]
           ext == LowerExt(d.path)
       IN IF d.walkErr \/ d.isDir \/ ext = <<>> \/ ext \notin extAllowed \/ d.infoErr
          THEN UNCHANGED <<out, counts>>
          ELSE /\ out' = Append(out, ScannedFile(d, normalizeExt(ext)))
               /\ counts' = Logged(counts, normalizeExt(ext))
    /\ UNCHANGED <<entries, tokenVars, poolVars>>

ScanNext == WalkFn
ScanSpec == ScanInit /\ [][ScanNext]_vars

\* ------------------------------------------------------------- C13
\* what the Ext of each entry of Tree is to be in the result, <<>> for an
\* entry that is not returned
ExpectedExt ==
    <<
       <<"j", "p", "g">>,
       <<"j", "p", "g">>,
       <<>>,
       <<>>,
       <<"j", "p", "g">>,
       <<"j", "p", "g">>,
       <<>>,
       <<"j", "p", "g">>,
       <<"p", "n", "g">>,
       <<>>,
       <<>>,
       <<>>,
       <<>>,
       <<"j", "p", "g">>
    >>
Expected(path) == ExpectedExt[CHOOSE k \in 1..Len(Tree) : Tree[k].path = path]
\* the entries of out with Ext key, and those of path
WithExt(key) == { n \in 1..Len(out) : out[n].Ext = key }
WithPath(path) == { n \in 1..Len(out) : out[n].Path = path }

\* C13: scanDirectory counts a readable file whose lower-cased extension is
\* jpeg under key jpg and gives it Ext jpg; counts never has key jpeg, every
\* key is in the allow-set without jpeg, for every key the count is the number
\* of returned entries with that Ext, every returned entry has a counted Ext,
\* and a file without extension or with one outside the allow-set is not returned.
C13_ScanCounts ==
    /\ Jpeg \notin DOMAIN counts
    /\ DOMAIN counts \subseteq extAllowed \ {Jpeg}
    /\ \A key \in DOMAIN counts : counts[key] = Cardinality(WithExt(key))
    /\ \A n \in 1..Len(out) : out[n].Ext \in DOMAIN counts
    /\ \A k \in 1..visited :
         LET d == entries[k] IN
         IF Expected(d.path) = <<>>
         THEN WithPath(d.path) = {}
         ELSE \E n \in 1..Len(out) :
                 /\ WithPath(d.path) = {n}
                 /\ out[n] = [Path |-> d.path, ModTime |-> d.modTime,
                              Ext |-> Expected(d.path), Size |-> d.size]

\* a scan has returned A.JPEG and a.jpeg under jpg next to a png, and has
\* skipped nothing
C13_Witness ==
    /\ visited = Len(entries) /\ Len(out) = 3
    /\ Jpg \in DOMAIN counts /\ counts[Jpg] = 2
    /\ \E n \in 1..Len(out) : out[n].Path = Tree[2].path
    /\ \E n \in 1..Len(out) : out[n].Path = Tree[6].path

\* ------------------------------------------------------------- C14
\* C14 as stated: in every result sent, Dst is set if and only if ConvBytes
\* is set, and the result is a success with both set or a failure with neither.
C14_DstIffConvBytes ==
    \A r \in DOMAIN sentLog :
       /\ r.Dst # "" <=> r.ConvBytes # 0
       /\ \/ r.Err = Nil /\ r.Dst # "" /\ r.ConvBytes # 0
          \/ r.Err # Nil /\ r.Dst = "" /\ r.ConvBytes = 0

\* C14 amended: in every result sent, a success has Dst set to a path the
\* job's output was placed at; a failure has ConvBytes unset; Dst is unset
\* exactly in the failure to find a unique path, every later failure carries
\* the resolved path in Dst.
C14_DstSetOnceResolved ==
    \A r \in DOMAIN sentLog :
       /\ r.Err \in {Nil, ErrUnique, ErrTemp, ErrEnc, ErrSave, ErrStat}
       /\ r.Err = Nil => r.Dst # "" /\ <<r.Dst, r.Src>> \in placed
       /\ r.Err # Nil => r.ConvBytes = 0
       /\ r.Dst = "" <=> r.Err = ErrUnique

\* sent are a success, a failure of the encoder with Dst set, and no other
C14_Witness ==
    /\ \E r \in DOMAIN sentLog : r.Err = ErrEnc /\ r.Dst # "" /\ r.ConvBytes = 0
    /\ \E r \in DOMAIN sentLog : r.Err = Nil /\ r.Dst # "" /\ r.ConvBytes # 0

\* ------------------------------------------------------------- C15
\* C15: no file at a final destination path is ever partially written: every
\* file on disk that is not a temp file holds a complete content, also while
\* the copy fallback runs, and a job whose rename and copy both failed has no
\* file of its own at a destination path.
C15_NoPartialDestination ==
    /\ \A p \in DOMAIN fs \ TmpNames : fs[p].whole
    /\ \A r \in DOMAIN sentLog : r.Err = ErrSave => FilesOf(r.Src) = {}

\* ------------------------------------------------------------- C16
\* the steps of a job after its unique path was resolved
AfterResolve == {"temp", "stat"} \cup InFlight
\* every candidate of path p, unsuffixed and suffixed, is in the set S of paths
AllCandidatesIn(p, S) == \A n \in 0..(SuffixLimit - 1) : Candidate(p, n) \in S

\* C16: when the candidate path and every suffixed candidate exist,
\* ensureUniquePath fails and the job ends as failed with no effect on the
\* disk: no temp file is created, the encoder is not invoked for it, no file
\* is created, changed or removed; a job whose temp file could not be created
\* fails as well, without the encoder being invoked for it.
C16_NoNameNoEffect ==
    /\ \A w \in Workers : (wpc[w] = "send" /\ res[w].Err = ErrUnique) =>
         /\ AllCandidatesIn(outPath[w], DOMAIN fs)
         /\ uniquePath[w] = "" /\ tmpPath[w] = "" /\ res[w].Dst = ""
    /\ \A w \in Workers : wpc[w] \in AfterResolve =>
         /\ uniquePath[w] # "" /\ res[w].Err # ErrUnique
         /\ ~AllCandidatesIn(outPath[w], DOMAIN before)
    /\ \A w \in Workers : (wpc[w] = "send" /\ res[w].Err \in {ErrUnique, ErrTemp}) =>
         /\ tmpPath[w] = "" /\ fi[w].Path \notin encLog
         /\ FilesOf(fi[w].Path) = {}
    /\ \A w \in Workers : wpc[w] \in AfterResolve \ {"temp"} => res[w].Err # ErrTemp
    /\ \A r \in DOMAIN sentLog : r.Err \in {ErrUnique, ErrTemp} =>
         /\ r.Src \notin encLog
         /\ FilesOf(r.Src) = {}
         /\ ~\E a \in placed : a[2] = r.Src
    /\ (Len(toConvert) = 1 /\ \E r \in DOMAIN sentLog : r.Err \in {ErrUnique, ErrTemp}) =>
         fs = before /\ encCalls = 0

\* a worker is about to send the failure of a job all of whose candidate
\* paths existed when the run started
C16_Witness ==
    \E w \in Workers : /\ wpc[w] = "send" /\ res[w].Err = ErrUnique
                       /\ AllCandidatesIn(outPath[w], DOMAIN before)
                       /\ fs = before /\ encCalls = 0

\* ------------------------------------------------------------- C17
\* the steps a job may take next from each step
StepOrder ==
    { <<"recv", "unique">>, <<"unique", "temp">>, <<"unique", "send">>,
      <<"temp", "enc">>, <<"temp", "send">>,
      <<"enc", "rename">>, <<"enc", "rmEnc">>, <<"rmEnc", "send">>,
      <<"rename", "stat">>, <<"rename", "copyOpen">>,
      <<"copyOpen", "copyData">>, <<"copyOpen", "rmSave">>,
      <<"copyData", "rmCopy">>, <<"copyData", "rmSave">>,
      <<"rmCopy", "stat">>, <<"rmSave", "send">>,
      <<"stat", "send">>, <<"send", "recv">> }

\* C17: each job takes its steps in a fixed order and never backwards: the
\* unique path is resolved before the temp file is created, the temp file is
\* on disk, in the directory of the destination, before the encoder is
\* invoked, the destination is written by rename or copy only after the
\* encoder exited successfully, the stat comes only after a placement, and a
\* job whose result was sent takes no further step: the worker forgets it.
C17_StepsInOrder ==
    [][\A w \in Workers :
         /\ (wpc'[w] # wpc[w] /\ wpc[w] \notin {"idle", "recv"} /\ wpc'[w] # "done")
              => /\ <<wpc[w], wpc'[w]>> \in StepOrder
                 /\ wpc'[w] # "recv" => fi'[w] = fi[w]
         /\ (wpc[w] = "recv" /\ wpc'[w] = "unique") => uniquePath'[w] = "" /\ tmpPath'[w] = ""
         /\ wpc'[w] = "temp" => uniquePath'[w] # "" /\ tmpPath'[w] = ""
         /\ wpc'[w] = "enc" =>
              /\ uniquePath'[w] # "" /\ Exists(fs', tmpPath'[w])
              /\ \E k \in 1..MaxTmp : tmpPath'[w] = TmpName(OutDir, k)
              /\ \E n \in 0..(SuffixLimit - 1) :
                    uniquePath'[w] = Candidate([outPath'[w] EXCEPT !.dir = OutDir], n)
              /\ fi'[w].Path \notin encLog'
         /\ wpc'[w] \in {"rename", "copyOpen", "copyData"} =>
              /\ fi'[w].Path \in encLog' /\ res'[w].Err = Nil
              /\ Exists(fs', tmpPath'[w]) /\ fs'[tmpPath'[w]].whole
         /\ (<<uniquePath[w], fi[w].Path>> \notin placed
             /\ <<uniquePath[w], fi[w].Path>> \in placed')
              => wpc[w] \in {"rename", "copyData"} /\ fs[tmpPath[w]].whole
         /\ wpc'[w] = "stat" => <<uniquePath'[w], fi'[w].Path>> \in placed'
         /\ (wpc[w] = "send" /\ wpc'[w] # "send") =>
              /\ wpc'[w] = "recv" /\ fi'[w] = NoFile
              /\ uniquePath'[w] = "" /\ tmpPath'[w] = ""]_vars

\* a job has resolved its path, made its temp file, encoded into it and placed
\* the output; the worker is about to stat the destination
C17_Witness ==
    \E w \in Workers : /\ wpc[w] = "stat" /\ Exists(fs, uniquePath[w])
                       /\ <<uniquePath[w], fi[w].Path>> \in placed
                       /\ tmpPath[w] # "" /\ tmpRemoved[w]
                       /\ fi[w].Path \in encLog

\* ------------------------------------------------------------- C18
\* the results of kind that failed in the stat of the placed output
StatFailures(log) == { r \in DOMAIN log : r.Err = ErrStat }

\* C18: when the output was placed at the destination and the stat of the
\* destination fails, the result is a failure with ConvBytes unset although
\* the file is on disk at the destination; the aggregator counts the job as
\* failed and adds its bytes to neither total.
C18_StatFailureIsFailure ==
    /\ \A w \in Workers : (wpc[w] = "send" /\ res[w].Err = ErrStat) =>
         /\ res[w].ConvBytes = 0 /\ res[w].Dst = uniquePath[w]
         /\ Exists(fs, uniquePath[w])
         /\ <<uniquePath[w], fi[w].Path>> \in placed
    /\ \A r \in StatFailures(sentLog) :
         /\ r.ConvBytes = 0 /\ Exists(fs, r.Dst) /\ <<r.Dst, r.Src>> \in placed
    /\ (PoolStarted /\ mainPc = "done" /\ Len(toConvert) = 1
        /\ StatFailures(sentLog) # {}) =>
         success = 0 /\ fail = 1 /\ totalOrig = 0 /\ totalConv = 0
    /\ (PoolStarted /\ mainPc = "done") =>
         /\ fail >= Cardinality(StatFailures(sentLog))
         /\ success <= Len(toConvert) - Cardinality(StatFailures(sentLog))
         /\ totalOrig = SentSum("orig") /\ totalConv = SentSum("conv")

\* a run of one job ended: the output is whole at the destination, the stat
\* failed, and the job was counted as failed
C18_Witness ==
    /\ PoolStarted /\ mainPc = "done" /\ Len(toConvert) = 1 /\ fail = 1
    /\ \E r \in StatFailures(sentLog) : Exists(fs, r.Dst) /\ fs[r.Dst].whole

\* ------------------------------------------------------------- the random token
\* The token of makeOutputFilename (lines 245-254) as the sequence of its
\* characters.  nano is time.Now().UnixNano() without its bits above the 31st,
\* which the mask of line 253 drops anyway.

\* line 246: make([]byte, 3)
TokenBytes == 3
\* line 253: 0xfffffff, seven hex digits f
Mask == 16^7 - 1

HexChars == <<"0", "1", "2", "3", "4", "5", "6", "7", "8", "9", "a", "b", "c", "d", "e", "f">>
HexDigit(n) == HexChars[n + 1]

\* hex.EncodeToString: two digits for every byte
EncodeToString(bytes) ==
    [k \in 1..(2 * Len(bytes)) |->
        IF k % 2 = 1 THEN HexDigit(bytes[(k + 1) \div 2] \div 16)
        ELSE HexDigit(bytes[k \div 2] % 16)]

\* fmt.Sprintf("%x", v) for v >= 0: the hex digits of v without leading zeros
RECURSIVE Sprintfx(_)
Sprintfx(v) == IF v < 16 THEN <<HexDigit(v)>> ELSE Append(Sprintfx(v \div 16), HexDigit(v % 16))

\* v & m for v >= 0 and a mask m of low one-bits
BitAnd(v, m) == v % (m + 1)

\* the bytes rand.Read may give and the nanosecond counts explored
Bytes == {0, 1, 15, 16, 163, 255}
Nanos == { k * (Mask + 1) + low : k \in {0, 1, 7},
                                  low \in {0, 15, 16, 2748, 16^6 - 1, 16^6, Mask} }

\* makeOutputFilename is about to make the token; the pool is not running
TokenInit ==
    /\ PoolStart({<<>>}, {<<>>})
    /\ ~dryRun /\ ~keepName /\ workers = 1 /\ prefix = "" /\ inputIsDir /\ encoderFound
    /\ ~outDirExists
    /\ NoScan
    /\ randOk \in BOOLEAN
    /\ rb \in IF randOk THEN [1..TokenBytes -> Bytes] ELSE {[k \in 1..TokenBytes |-> 0]}
    /\ nano \in IF randOk THEN {0} ELSE Nanos
    /\ token = <<>> /\ tokPc = "rand"

\* lines 246-254: rand.Read(rb), then the token from rb or from the clock
MakeToken ==
    /\ tokPc = "rand"
    /\ token' = IF randOk THEN EncodeToString(rb) ELSE Sprintfx(BitAnd(nano, Mask))
    /\ tokPc' = "done"
    /\ UNCHANGED <<randOk, rb, nano, scanVars, poolVars>>

TokenNext == MakeToken
TokenSpec == TokenInit /\ [][TokenNext]_vars

\* ------------------------------------------------------------- C19
\* C19: the random token is always exactly 6 hexadecimal characters, from the
\* random bytes and from the fallback alike.
C19_TokenSixHex ==
    tokPc = "done" =>
       /\ Len(token) = 2 * TokenBytes
       /\ \A k \in 1..Len(token) : \E n \in 1..Len(HexChars) : token[k] = HexChars[n]

\* ------------------------------------------------------------- C20
\* C20: no channel send in the pool blocks: never are more jobs or results
\* buffered than there are jobs; whenever the feeder has a job left to send
\* jobCh has room, and whenever a worker is about to send a result results has
\* room, also when the aggregator has received nothing; and while the pool
\* runs some goroutine can always step.
C20_SendsNeverBlock ==
    /\ Len(jobCh) <= Len(toConvert) /\ Len(results) <= Len(toConvert)
    /\ (feedPc = "feed" /\ fed < Len(toConvert)) => Len(jobCh) < Cap /\ ~jobChClosed
    /\ \A w \in Workers : wpc[w] = "send" => Len(results) < Cap /\ ~resultsClosed
    /\ (PoolStarted /\ mainPc # "done") => ENABLED Next

\* both results are buffered and the aggregator has received none
C20_Witness ==
    /\ Len(toConvert) = 2 /\ Len(results) = 2 /\ success + fail = 0
    /\ mainPc = "collect" /\ ~resultsClosed
====
